---- MODULE Spec2Model ----
(***************************************************************************)
(* Task / TaskRegistry of sql/platform/tasks/common/tasks.ts.              *)
(*                                                                         *)
(* The registry is a singleton holding a list of task ids, a map from task *)
(* id to icon class name and a map from task id to command action.  Every  *)
(* registration returns a disposable that closes over the id and over the  *)
(* disposable of the CommandsRegistry registration.                        *)
(*                                                                         *)
(* An optional value (undefined / null in the source) is a sequence of     *)
(* length at most one: <<>> is undefined, <<v>> is the value v.            *)
(***************************************************************************)
EXTENDS Integers, Sequences, FiniteSets, TLC

VARIABLES
    _tasks,                    \* TaskRegistry._tasks
    taskIdToIconClassNameMap,  \* TaskRegistry.taskIdToIconClassNameMap
    taskIdToCommandActionMap,  \* TaskRegistry.taskIdToCommandActionMap
    ids,                       \* the IdGenerator: the last number it handed out
    cssRules,                  \* the rules created through createCSSRule, in order
    menuCommands,              \* the command actions MenuRegistry.addCommand received
    disposables,               \* the registrations made so far, in order, each with its disposable's captured state
    firstIconClass,            \* per task id, what the first getOrCreateTaskIconClassName call with an iconPath returned
    last                       \* the last call made on the API: its arguments, its return value and the calls it made

vars == <<_tasks, taskIdToIconClassNameMap, taskIdToCommandActionMap, ids,
          cssRules, menuCommands, disposables, firstIconClass, last>>

(***************************************************************************)
(* Bounds                                                                  *)
(***************************************************************************)
MaxRegs == 2

(***************************************************************************)
(* Values                                                                  *)
(***************************************************************************)
None == <<>>
Some(v) == <<v>>

\* JavaScript truthiness of an optional string: undefined and the empty string
\* are falsy.
Truthy(o) == o # None /\ o # Some("")

\* JavaScript truthiness of an optional object: only undefined is falsy.
TruthyObject(o) == o # None

TaskIds == {"A", "B"}

IconBoth == [dark |-> "dark.svg", light |-> Some("light.svg")]
IconDarkOnly == [dark |-> "dark2.svg", light |-> None]

\* ITaskOptions / ITask field values the environment registers with.
TaskShapes ==
    { [title |-> Some("t1"), iconPath |-> Some(IconBoth),     iconClass |-> None,       description |-> Some("d")],
      [title |-> Some("t2"), iconPath |-> Some(IconDarkOnly), iconClass |-> Some("c2"), description |-> None],
      [title |-> Some("t1"), iconPath |-> None,               iconClass |-> Some("c1"), description |-> None],
      [title |-> Some(""),   iconPath |-> Some(IconBoth),     iconClass |-> Some(""),   description |-> None] }

ITaskOptions == { [id |-> i, title |-> s.title, iconPath |-> s.iconPath,
                   iconClass |-> s.iconClass, description |-> s.description] :
                  i \in TaskIds, s \in TaskShapes }

\* The command actions getOrCreateTaskIconClassName is called with.
CommandActionItems ==
    { [id |-> "A", title |-> Some("t1"), iconPath |-> None],
      [id |-> "A", title |-> Some("t1"), iconPath |-> Some(IconBoth)],
      [id |-> "B", title |-> Some("t2"), iconPath |-> None],
      [id |-> "B", title |-> Some("t2"), iconPath |-> Some(IconDarkOnly)] }

\* The (accessor, profile, args) a handler is invoked with.
HandlerCalls == {"accessor"} \X {"profile1", "profile2"} \X {"args"}

\* The argument of Task.registerTask: omitted, true or false.
ShowArguments == {None, Some(TRUE), Some(FALSE)}

(***************************************************************************)
(* class Task                                                              *)
(***************************************************************************)
\* The constructor copies the options into the fields of the Task.
NewTask(opts) ==
    [id |-> opts.id, title |-> opts.title, iconPath |-> opts.iconPath,
     iconClass_ |-> opts.iconClass, description_ |-> opts.description]

\* A handler is the function it computes: from the arguments of a call to the
\* call it makes.  The handler of toITask calls runTask of its Task.
RunTaskHandler(this) ==
    [c \in HandlerCalls |-> [call |-> "runTask", task |-> this.id, accessor |-> c[1],
                             profile |-> c[2], args |-> c[3]]]

\* A handler given directly by a caller of TaskRegistry.registerTask.
PlainHandler ==
    [c \in HandlerCalls |-> [call |-> "handler", task |-> "", accessor |-> c[1],
                             profile |-> c[2], args |-> c[3]]]

toITask(this) ==
    [id |-> this.id,
     handler |-> RunTaskHandler(this),
     description |-> this.description_,
     iconClass |-> this.iconClass_,
     iconPath |-> this.iconPath,
     title |-> this.title]

\* A toCommandAction that takes the title from the wrong field.
toCommandAction_titleFromId(this) ==
    [iconPath |-> this.iconPath, id |-> this.id, title |-> Some(this.id)]

toCommandAction(this) ==
    [iconPath |-> this.iconPath, id |-> this.id, title |-> this.title]

\* An ITask a caller builds itself, with the same field values.
PlainITask(opts) ==
    [id |-> opts.id, handler |-> PlainHandler, description |-> opts.description,
     iconClass |-> opts.iconClass, iconPath |-> opts.iconPath, title |-> opts.title]

\* The ITask the string + handler form amounts to: an id and a handler only.
StringFormTask(id) ==
    [id |-> id, handler |-> PlainHandler, description |-> None,
     iconClass |-> None, iconPath |-> None, title |-> None]

(***************************************************************************)
(* TaskRegistry                                                            *)
(***************************************************************************)
Init ==
    /\ _tasks = <<>>
    /\ taskIdToIconClassNameMap = [i \in {} |-> ""]
    /\ taskIdToCommandActionMap = [i \in {} |-> None]
    /\ ids = 0
    /\ cssRules = <<>>
    /\ menuCommands = [i \in {} |-> None]
    /\ disposables = <<>>
    /\ firstIconClass = [i \in {} |-> ""]
    /\ last = [op |-> "none", id |-> "", opts |-> None, task |-> None, item |-> None,
               show |-> None, reg |-> 0, repeat |-> FALSE, ret |-> None, seen |-> <<>>,
               calls |-> <<>>]

\* Map.set
MapSet(m, k, v) == [x \in DOMAIN m \cup {k} |-> IF x = k THEN v ELSE m[x]]

\* Map.get: undefined when the key is absent
MapGet(m, k) == IF k \in DOMAIN m THEN Some(m[k]) ELSE None

\* Array.indexOf, 0-based as in the source; -1 when absent
indexOf(arr, x) ==
    IF \E k \in 1..Len(arr) : arr[k] = x
    THEN (CHOOSE k \in 1..Len(arr) : arr[k] = x /\ \A j \in 1..(k-1) : arr[j] # x) - 1
    ELSE -1

\* Array.splice(index, 1): the array is left without the element at index and
\* the call returns the array of the removed elements.
spliceRemaining(arr, index) ==
    [k \in 1..(Len(arr) - 1) |-> IF k <= index THEN arr[k] ELSE arr[k + 1]]

spliceReturn(arr, index) == <<arr[index + 1]>>

getTasks == _tasks

getCommandActionById(taskId) == MapGet(taskIdToCommandActionMap, taskId)

\* A registerTask that keeps the icon class an id is already mapped to.
iconClassMapAfterRegister_keepFirst(map, isString, idOrTask) ==
    IF ~isString /\ Truthy(idOrTask.iconClass) /\ idOrTask.id \notin DOMAIN map
    THEN MapSet(map, idOrTask.id, idOrTask.iconClass[1])
    ELSE map

\* registerTask, lines 135-137: an ITask with a truthy iconClass maps its id to it.
iconClassMapAfterRegister(map, isString, idOrTask) ==
    IF ~isString /\ Truthy(idOrTask.iconClass)
    THEN MapSet(map, idOrTask.id, idOrTask.iconClass[1])
    ELSE map

\* A registerTask that keeps the command action an id is already mapped to.
commandActionMapAfterRegister_keepFirst(map, isString, idOrTask) ==
    IF ~isString /\ TruthyObject(idOrTask.iconPath) /\ Truthy(idOrTask.title)
       /\ idOrTask.id \notin DOMAIN map
    THEN MapSet(map, idOrTask.id,
                [iconPath |-> idOrTask.iconPath, id |-> idOrTask.id, title |-> idOrTask.title])
    ELSE map

\* registerTask, lines 138-144: an ITask with a truthy iconPath and a truthy
\* title maps its id to a fresh command action.
commandActionMapAfterRegister(map, isString, idOrTask) ==
    IF ~isString /\ TruthyObject(idOrTask.iconPath) /\ Truthy(idOrTask.title)
    THEN MapSet(map, idOrTask.id,
                [iconPath |-> idOrTask.iconPath, id |-> idOrTask.id, title |-> idOrTask.title])
    ELSE map

\* A registerTask that puts the id at the front of the list.
registerSteps_unshift(tasks, id) ==
    [tasks |-> <<id>> \o tasks,
     seen  |-> <<id>> \o tasks,
     calls |-> << <<"registerCommand", id>>, <<"push", id>>, <<"fire", id>> >>]

\* A registerTask that fires the event before it pushes the id.
registerSteps_fireFirst(tasks, id) ==
    [tasks |-> Append(tasks, id),
     seen  |-> tasks,
     calls |-> << <<"registerCommand", id>>, <<"fire", id>>, <<"push", id>> >>]

\* registerTask, lines 132/145 and 149-150: the command is registered, the id is
\* pushed and then the event is fired; seen is the list a listener reads with
\* getTasks() while the event is delivered.
registerSteps(tasks, id) ==
    [tasks |-> Append(tasks, id),
     seen  |-> Append(tasks, id),
     calls |-> << <<"registerCommand", id>>, <<"push", id>>, <<"fire", id>> >>]

\* TaskRegistry.registerTask(idOrTask, handler), after the calls in before (the
\* ones Task.registerTask makes first).
registerTask(op, isString, idOrTask, opts, show, before) ==
    LET id == idOrTask.id
        steps == registerSteps(_tasks, id)
    IN  /\ Len(disposables) < MaxRegs
        /\ taskIdToIconClassNameMap' =
               iconClassMapAfterRegister(taskIdToIconClassNameMap, isString, idOrTask)
        /\ taskIdToCommandActionMap' =
               commandActionMapAfterRegister(taskIdToCommandActionMap, isString, idOrTask)
        /\ _tasks' = steps.tasks
        /\ disposables' = Append(disposables,
               [id |-> id, isString |-> isString, iconClass |-> idOrTask.iconClass,
                iconPath |-> idOrTask.iconPath, title |-> idOrTask.title,
                command |-> "registered", disposed |-> FALSE])
        /\ last' = [op |-> op, id |-> id, opts |-> opts, task |-> Some(idOrTask), item |-> None,
                    show |-> show, reg |-> Len(disposables) + 1, repeat |-> FALSE,
                    ret |-> None, seen |-> steps.seen, calls |-> before \o steps.calls]
        /\ UNCHANGED <<ids, cssRules, firstIconClass>>

\* TaskRegistry.registerTask(id, handler)
RegisterTaskString(id) ==
    /\ registerTask("registerTask(id, handler)", TRUE, StringFormTask(id), None, None, <<>>)
    /\ UNCHANGED menuCommands

\* TaskRegistry.registerTask(task)
RegisterTaskITask(opts) ==
    /\ registerTask("registerTask(task)", FALSE, PlainITask(opts), None, None, <<>>)
    /\ UNCHANGED menuCommands

\* A Task.registerTask that ignores showInCommandPalette.
menuAfterRegister_always(menu, this, showInCommandPalette) ==
    [commands |-> MapSet(menu, this.id, toCommandAction(this)),
     calls |-> << <<"addCommand", this.id>> >>]

\* Task.registerTask, lines 68-70: MenuRegistry.addCommand when shown in the palette.
menuAfterRegister(menu, this, showInCommandPalette) ==
    IF showInCommandPalette
    THEN [commands |-> MapSet(menu, this.id, toCommandAction(this)),
          calls |-> << <<"addCommand", this.id>> >>]
    ELSE [commands |-> menu, calls |-> <<>>]

\* Task.registerTask, line 67: the parameter defaults to true.
showInCommandPaletteOf(argument) == IF argument = None THEN TRUE ELSE argument[1]

\* new Task(opts).registerTask(argument)
TaskRegisterTask(opts, argument) ==
    LET this == NewTask(opts)
        m == menuAfterRegister(menuCommands, this, showInCommandPaletteOf(argument))
    IN  /\ menuCommands' = m.commands
        /\ registerTask("Task.registerTask", FALSE, toITask(this), Some(opts), argument, m.calls)

\* A dispose that keeps what splice leaves in the array.
tasksAfterDispose_spliced(tasks, id) ==
    LET index == indexOf(tasks, id)
    IN  IF index >= 0 THEN spliceRemaining(tasks, index) ELSE tasks

\* dispose, lines 154-157: the list after the disposable of id has run.
tasksAfterDispose(tasks, id) ==
    LET index == indexOf(tasks, id)
    IN  IF index >= 0 THEN spliceReturn(tasks, index) ELSE tasks

\* A dispose that also forgets the icon class and the command action of the id.
Dispose_clearsMaps(r) ==
    LET id == disposables[r].id
    IN  /\ _tasks' = tasksAfterDispose(_tasks, id)
        /\ disposables' = [disposables EXCEPT ![r].command = "disposed", ![r].disposed = TRUE]
        /\ last' = [op |-> "dispose", id |-> id, opts |-> None, task |-> None, item |-> None,
                    show |-> None,
                    reg |-> r, repeat |-> (last.op = "dispose" /\ last.reg = r),
                    ret |-> None, seen |-> <<>>,
                    calls |-> (IF indexOf(_tasks, id) >= 0 THEN << <<"splice", id>> >> ELSE <<>>)
                              \o << <<"disposeCommand", id>> >>]
        /\ taskIdToIconClassNameMap' =
               [x \in DOMAIN taskIdToIconClassNameMap \ {id} |-> taskIdToIconClassNameMap[x]]
        /\ taskIdToCommandActionMap' =
               [x \in DOMAIN taskIdToCommandActionMap \ {id} |-> taskIdToCommandActionMap[x]]
        /\ UNCHANGED <<ids, cssRules, menuCommands, firstIconClass>>

\* dispose() of the disposable the r-th registerTask call returned.
Dispose(r) ==
    LET id == disposables[r].id
    IN  /\ _tasks' = tasksAfterDispose(_tasks, id)
        /\ disposables' = [disposables EXCEPT ![r].command = "disposed", ![r].disposed = TRUE]
        /\ last' = [op |-> "dispose", id |-> id, opts |-> None, task |-> None, item |-> None,
                    show |-> None,
                    reg |-> r, repeat |-> (last.op = "dispose" /\ last.reg = r),
                    ret |-> None, seen |-> <<>>,
                    calls |-> (IF indexOf(_tasks, id) >= 0 THEN << <<"splice", id>> >> ELSE <<>>)
                              \o << <<"disposeCommand", id>> >>]
        /\ UNCHANGED <<taskIdToIconClassNameMap, taskIdToCommandActionMap, ids,
                       cssRules, menuCommands, firstIconClass>>

\* IdGenerator('task-icon-').nextId()
nextId(lastId) == "task-icon-" \o ToString(lastId + 1)

\* URI.file(path).toString()
fileUri(path) == "file://" \o path

\* A getOrCreateTaskIconClassName that does not record the class it generates.
getOrCreate_notMemoized(map, lastId, rules, item) ==
    IF item.id \in DOMAIN map
    THEN [iconClass |-> Some(map[item.id]), map |-> map, lastId |-> lastId,
          rules |-> rules, calls |-> <<>>]
    ELSE IF TruthyObject(item.iconPath)
    THEN LET iconClass == nextId(lastId)
         IN  [iconClass |-> Some(iconClass), map |-> map, lastId |-> lastId + 1,
              rules |-> rules \o
                  << [selector |-> ".icon." \o iconClass, url |-> fileUri(item.iconPath[1].dark)] >>,
              calls |-> << <<"nextId", iconClass>>, <<"createCSSRule", iconClass>> >>]
    ELSE [iconClass |-> None, map |-> map, lastId |-> lastId, rules |-> rules, calls |-> <<>>]

\* getOrCreateTaskIconClassName, lines 164-173: the value returned, the map, the
\* generator and the CSS rules after the call.
getOrCreate(map, lastId, rules, item) ==
    IF item.id \in DOMAIN map
    THEN [iconClass |-> Some(map[item.id]), map |-> map, lastId |-> lastId,
          rules |-> rules, calls |-> <<>>]
    ELSE IF TruthyObject(item.iconPath)
    THEN LET iconClass == nextId(lastId)
             path == item.iconPath[1]
             light == IF Truthy(path.light) THEN path.light[1] ELSE path.dark
         IN  [iconClass |-> Some(iconClass),
              map |-> MapSet(map, item.id, iconClass),
              lastId |-> lastId + 1,
              rules |-> rules \o
                  << [selector |-> ".icon." \o iconClass, url |-> fileUri(light)],
                     [selector |-> ".vs-dark .icon." \o iconClass \o ", .hc-black .icon." \o iconClass,
                      url |-> fileUri(path.dark)] >>,
              calls |-> << <<"nextId", iconClass>>, <<"createCSSRule", iconClass>>,
                           <<"createCSSRule", iconClass>> >>]
    ELSE [iconClass |-> None, map |-> map, lastId |-> lastId, rules |-> rules, calls |-> <<>>]

\* TaskRegistry.getOrCreateTaskIconClassName(item)
GetOrCreateTaskIconClassName(item) ==
    LET r == getOrCreate(taskIdToIconClassNameMap, ids, cssRules, item)
    IN  /\ taskIdToIconClassNameMap' = r.map
        /\ ids' = r.lastId
        /\ cssRules' = r.rules
        /\ firstIconClass' =
               IF TruthyObject(item.iconPath) /\ item.id \notin DOMAIN firstIconClass
               THEN MapSet(firstIconClass, item.id, r.iconClass[1])
               ELSE firstIconClass
        /\ last' = [op |-> "getOrCreateTaskIconClassName", id |-> item.id, opts |-> None,
                    task |-> None, item |-> Some(item), show |-> None, reg |-> 0,
                    repeat |-> FALSE,
                    ret |-> r.iconClass, seen |-> <<>>, calls |-> r.calls]
        /\ UNCHANGED <<_tasks, taskIdToCommandActionMap, menuCommands, disposables>>

\* The registry and its direct callers.  Task.registerTask reaches the
\* registry only through registerTask(task), which is taken here with the same
\* field values.
Next ==
    \/ \E id \in TaskIds : RegisterTaskString(id)
    \/ \E opts \in ITaskOptions : RegisterTaskITask(opts)
    \/ \E r \in 1..Len(disposables) : Dispose(r)
    \/ \E item \in CommandActionItems : GetOrCreateTaskIconClassName(item)

Spec == Init /\ [][Next]_vars

\* Tasks registering themselves, next to direct callers of the registry.
TaskNext ==
    \/ \E opts \in ITaskOptions, argument \in ShowArguments : TaskRegisterTask(opts, argument)
    \/ \E id \in TaskIds : RegisterTaskString(id)
    \/ \E opts \in ITaskOptions : RegisterTaskITask(opts)
    \/ \E r \in 1..Len(disposables) : Dispose(r)

TaskSpec == Init /\ [][TaskNext]_vars

(***************************************************************************)
(* Vocabulary of the properties                                            *)
(***************************************************************************)
RegisterOps == {"registerTask(id, handler)", "registerTask(task)", "Task.registerTask"}

Contains(arr, x) == \E k \in 1..Len(arr) : arr[k] = x

\* s can be obtained from t by deleting elements.
IsSubsequence(s, t) ==
    \E f \in [1..Len(s) -> 1..Len(t)] :
        /\ \A k \in 1..Len(s) : s[k] = t[f[k]]
        /\ \A j, k \in 1..Len(s) : j < k => f[j] < f[k]

\* The ids registered so far, in the order of the registerTask calls.
RegisteredIds == [r \in 1..Len(disposables) |-> disposables[r].id]

\* The registrations of an id.
RegistrationsOf(id) == {r \in 1..Len(disposables) : disposables[r].id = id}

\* The ids of the registrations that have not been disposed, in order.
LiveRegistration(d) == ~d.disposed
LiveIds ==
    LET live == SelectSeq(disposables, LiveRegistration)
    IN  [k \in 1..Len(live) |-> live[k].id]

\* The positions in a call log of the calls of one kind, and the first of them.
CallsOf(calls, kind) == {k \in 1..Len(calls) : calls[k][1] = kind}
FirstCall(calls, kind) == CHOOSE k \in CallsOf(calls, kind) : \A j \in CallsOf(calls, kind) : k <= j

(***************************************************************************)
(* C1.  Right after TaskRegistry.registerTask returns for an id, in either *)
(* form, getTasks() contains that id, and the ids of getTasks() appear in  *)
(* the order in which they were registered.                                *)
(***************************************************************************)
C1_RegisterThenLookup ==
    /\ last.op \in RegisterOps => Contains(getTasks, last.id)
    /\ IsSubsequence(getTasks, RegisteredIds)

\* A second, different id has just been registered through the string form
\* and the list holds both ids.
C1_Witness ==
    /\ last.op = "registerTask(id, handler)"
    /\ Len(getTasks) = 2
    /\ getTasks[1] # getTasks[2]
    /\ getTasks[2] = last.id

(***************************************************************************)
(* C2.  When an id was registered exactly once and the disposable of that  *)
(* registration has been disposed, getTasks() no longer contains the id.   *)
(***************************************************************************)
C2_DisposeRemoves ==
    \A r \in 1..Len(disposables) :
        (disposables[r].disposed /\ Cardinality(RegistrationsOf(disposables[r].id)) = 1)
            => ~Contains(getTasks, disposables[r].id)

(***************************************************************************)
(* C7.  getTasks() always equals the list of the registered and not yet    *)
(* disposed ids: a dispose leaves every other registration in place, in    *)
(* the same relative order.                                                *)
(***************************************************************************)
C7_ListIsLiveRegistrations == getTasks = LiveIds

(***************************************************************************)
(* C3.  Icon class allocation for a command action with an iconPath.       *)
(***************************************************************************)
\* The item of the call that has just returned has an iconPath.
IconPathCall(l) == l.op = "getOrCreateTaskIconClassName" /\ TruthyObject(l.item[1].iconPath)

\* What getOrCreateTaskIconClassName returns for an item in the current state.
ReturnFor(item) == getOrCreate(taskIdToIconClassNameMap, ids, cssRules, item).iconClass

\* The step registers an ITask with a truthy iconClass for id.
RegistersIconClassFor(id) ==
    /\ Len(disposables') = Len(disposables) + 1
    /\ disposables'[Len(disposables')].id = id
    /\ Truthy(disposables'[Len(disposables')].iconClass)

\* C3 as stated: every call with an iconPath returns, for its id, the class
\* name the first such call returned.
C3_SameClassEveryTime ==
    IconPathCall(last) => last.ret = Some(firstIconClass[last.id])

\* C3 as amended: after a first call with an iconPath for an id, what the
\* call returns for that id changes only in a step that registers an ITask
\* with an iconClass for that id, and no later call for that id, in any
\* interleaving, draws an id from the generator or creates a CSS rule.
C3_IdempotentAllocation ==
    [][ \A item \in CommandActionItems :
          (TruthyObject(item.iconPath) /\ item.id \in DOMAIN firstIconClass) =>
              /\ ~RegistersIconClassFor(item.id) => ReturnFor(item)' = ReturnFor(item)
              /\ (last'.op = "getOrCreateTaskIconClassName" /\ last'.id = item.id) =>
                     /\ ids' = ids
                     /\ cssRules' = cssRules
                     /\ last'.calls = <<>> ]_vars

\* A call with an iconPath has returned, for the second time, the class the
\* first call generated, with registrations and a dispose in between.
C3_Witness ==
    /\ IconPathCall(last)
    /\ last.calls = <<>>
    /\ last.id \in DOMAIN firstIconClass
    /\ last.ret = Some("task-icon-1")
    /\ Len(cssRules) = 2
    /\ \E r \in 1..Len(disposables) : disposables[r].disposed

(***************************************************************************)
(* C4.  getCommandActionById(id) is the record {id, title, iconPath} of    *)
(* the most recent ITask-form registration of id that carried both an      *)
(* iconPath and a title, and undefined when there is none.                 *)
(***************************************************************************)
CarriesCommandAction(d) == ~d.isString /\ TruthyObject(d.iconPath) /\ Truthy(d.title)

CommandActionRegistrations(id) ==
    {r \in RegistrationsOf(id) : CarriesCommandAction(disposables[r])}

MostRecent(S) == CHOOSE r \in S : \A q \in S : q <= r

C4_CommandActionOfMostRecent ==
    \A id \in TaskIds :
        getCommandActionById(id) =
            IF CommandActionRegistrations(id) = {}
            THEN None
            ELSE LET d == disposables[MostRecent(CommandActionRegistrations(id))]
                 IN  Some([id |-> id, title |-> d.title, iconPath |-> d.iconPath])

\* Two registrations of one id carried different command actions, the
\* lookup returns the later one, and another id has none.
C4_Witness ==
    /\ Len(disposables) = 2
    /\ disposables[1].id = disposables[2].id
    /\ CarriesCommandAction(disposables[1])
    /\ CarriesCommandAction(disposables[2])
    /\ disposables[1].title # disposables[2].title
    /\ getCommandActionById(disposables[1].id)[1].title = disposables[2].title
    /\ \E id \in TaskIds : getCommandActionById(id) = None

(***************************************************************************)
(* C5.  Task.registerTask(showInCommandPalette) adds the command action of *)
(* the task to MenuRegistry exactly when showInCommandPalette is true, the *)
(* default of an omitted argument; in both cases it registers the task     *)
(* with TaskRegistry, and the menu addition comes first.                   *)
(***************************************************************************)
C5_PaletteOptional ==
    [][ (last'.op = "Task.registerTask" /\ Len(disposables') = Len(disposables) + 1) =>
          LET o == last'.opts[1]
              shown == last'.show \in {None, Some(TRUE)}
              calls == last'.calls
          IN  /\ shown =>
                    /\ menuCommands' = MapSet(menuCommands, o.id,
                                               [id |-> o.id, title |-> o.title, iconPath |-> o.iconPath])
                    /\ Cardinality(CallsOf(calls, "addCommand")) = 1
                    /\ \A k \in 1..Len(calls) :
                           calls[k][1] # "addCommand" => FirstCall(calls, "addCommand") < k
              /\ ~shown =>
                    /\ menuCommands' = menuCommands
                    /\ CallsOf(calls, "addCommand") = {}
              /\ Cardinality(CallsOf(calls, "registerCommand")) = 1
              /\ _tasks' = Append(_tasks, o.id)
              /\ disposables'[last'.reg].id = o.id
              /\ disposables'[last'.reg].command = "registered" ]_vars

\* A task has been registered with the argument false after another one was
\* registered with the argument omitted: only the first is in the menu.
C5_Witness ==
    /\ last.op = "Task.registerTask"
    /\ last.show = Some(FALSE)
    /\ last.id \notin DOMAIN menuCommands
    /\ DOMAIN menuCommands # {}
    /\ Contains(getTasks, last.id)

(***************************************************************************)
(* C6.  The ITask that Task.registerTask hands to TaskRegistry carries the *)
(* id, title, iconPath, iconClass and description of the constructor       *)
(* options and a handler that calls runTask with the accessor, profile and *)
(* args it is given; the command action handed to MenuRegistry carries the *)
(* same id, title and iconPath; with a title and an iconPath,              *)
(* getCommandActionById(id) equals the command action MenuRegistry got.    *)
(***************************************************************************)
C6_RecordsCarryOptions ==
    last.op = "Task.registerTask" =>
        LET o == last.opts[1]
            t == last.task[1]
            shown == last.show \in {None, Some(TRUE)}
        IN  /\ t.id = o.id
            /\ t.title = o.title
            /\ t.iconPath = o.iconPath
            /\ t.iconClass = o.iconClass
            /\ t.description = o.description
            /\ \A c \in HandlerCalls :
                   t.handler[c] = [call |-> "runTask", task |-> o.id, accessor |-> c[1],
                                   profile |-> c[2], args |-> c[3]]
            /\ shown =>
                   /\ menuCommands[o.id].id = o.id
                   /\ menuCommands[o.id].title = o.title
                   /\ menuCommands[o.id].iconPath = o.iconPath
            /\ (shown /\ Truthy(o.title) /\ TruthyObject(o.iconPath)) =>
                   getCommandActionById(o.id) = Some(menuCommands[o.id])

\* A task with a title, an iconPath, an iconClass has been registered and
\* shown in the palette.
C6_Witness ==
    /\ last.op = "Task.registerTask"
    /\ last.show = Some(TRUE)
    /\ Truthy(last.opts[1].title)
    /\ TruthyObject(last.opts[1].iconPath)
    /\ Truthy(last.opts[1].iconClass)
    /\ getCommandActionById(last.id) = Some(menuCommands[last.id])

(***************************************************************************)
(* C8.  Calling dispose() a second time on the same disposable leaves      *)
(* getTasks() exactly as after the first call; and a dispose of an already *)
(* disposed registration, whenever it comes, does not take the id out of   *)
(* the list while another registration of that id is still live.           *)
(***************************************************************************)
C8_DisposeTwice ==
    [][ /\ (last'.op = "dispose" /\ last'.repeat) => getTasks' = getTasks
        /\ (/\ last'.op = "dispose"
            /\ disposables[last'.reg].disposed
            /\ Contains(getTasks, last'.id)
            /\ \E r \in RegistrationsOf(last'.id) : r # last'.reg /\ ~disposables[r].disposed)
               => Contains(getTasks', last'.id) ]_vars

\* The disposable of one of two registrations of an id has been disposed
\* twice in a row, the other registration is live and the id is listed.
C8_Witness ==
    /\ last.op = "dispose"
    /\ last.repeat
    /\ \E r \in RegistrationsOf(last.id) : r # last.reg /\ ~disposables[r].disposed
    /\ Contains(getTasks, last.id)

(***************************************************************************)
(* C9.  Every TaskRegistry.registerTask call fires onTaskRegistered        *)
(* exactly once, with the registered id, after the command was registered  *)
(* with CommandsRegistry and after the id was appended to the list, so a   *)
(* listener calling getTasks() sees the id; dispose() never fires it.      *)
(***************************************************************************)
C9_FiresOnceAfterPush ==
    /\ last.op \in RegisterOps =>
          LET fires == CallsOf(last.calls, "fire")
          IN  /\ Cardinality(fires) = 1
              /\ \A k \in fires : last.calls[k] = <<"fire", last.id>>
              /\ \E c \in CallsOf(last.calls, "registerCommand") : \A k \in fires : c < k
              /\ \E c \in CallsOf(last.calls, "push") : \A k \in fires : c < k
              /\ Contains(last.seen, last.id)
    /\ last.op = "dispose" => CallsOf(last.calls, "fire") = {}

\* An id has just been registered for the first time, after a dispose
\* emptied the list of it, and the listener saw it.
C9_Witness ==
    /\ last.op = "registerTask(task)"
    /\ Cardinality(RegistrationsOf(last.id)) = 1
    /\ Len(disposables) = 2
    /\ disposables[1].disposed
    /\ Contains(last.seen, last.id)

(***************************************************************************)
(* C10.  An icon class supplied at registration takes precedence.          *)
(***************************************************************************)
IconClassRegistrations(id) ==
    {r \in RegistrationsOf(id) : ~disposables[r].isString /\ Truthy(disposables[r].iconClass)}

\* C10 as stated: once an ITask with a non-empty iconClass has been
\* registered for an id, the call for that id returns exactly that iconClass.
C10_RegisteredClassReturned ==
    last.op = "getOrCreateTaskIconClassName" =>
        \A r \in IconClassRegistrations(last.id) : last.ret = disposables[r].iconClass

\* C10 as amended: once ITasks with a non-empty iconClass have been
\* registered for an id, the call for that id returns the iconClass of the
\* most recent of them, whether or not the item has an iconPath, draws no id
\* and creates no CSS rule; when the id has no mapped class and the item has
\* no iconPath, the call returns null and leaves the icon-class map unchanged.
C10_MostRecentClassReturned ==
    [][ last'.op = "getOrCreateTaskIconClassName" =>
          LET item == last'.item[1]
          IN  /\ IconClassRegistrations(item.id) # {} =>
                    /\ last'.ret = disposables[MostRecent(IconClassRegistrations(item.id))].iconClass
                    /\ ids' = ids
                    /\ cssRules' = cssRules
                    /\ last'.calls = <<>>
              /\ (item.id \notin DOMAIN taskIdToIconClassNameMap /\ ~TruthyObject(item.iconPath)) =>
                    /\ last'.ret = None
                    /\ taskIdToIconClassNameMap' = taskIdToIconClassNameMap ]_vars

\* A call with an iconPath returned the class of the later of two
\* registrations of its id, after an earlier call had generated one.
C10_Witness ==
    /\ IconPathCall(last)
    /\ Cardinality(IconClassRegistrations(last.id)) = 2
    /\ last.ret = disposables[2].iconClass
    /\ disposables[1].iconClass # disposables[2].iconClass
    /\ Len(cssRules) = 2

(***************************************************************************)
(* C11.  dispose() of a registration leaves the id-to-icon-class map and   *)
(* the id-to-command-action map unchanged, so getCommandActionById and     *)
(* getOrCreateTaskIconClassName return after the dispose what they         *)
(* returned before it.                                                     *)
(***************************************************************************)
C11_DisposeKeepsMaps ==
    [][ last'.op = "dispose" =>
          /\ taskIdToIconClassNameMap' = taskIdToIconClassNameMap
          /\ taskIdToCommandActionMap' = taskIdToCommandActionMap
          /\ \A id \in TaskIds : getCommandActionById(id)' = getCommandActionById(id)
          /\ \A item \in CommandActionItems : ReturnFor(item)' = ReturnFor(item) ]_vars

\* A registration whose id has a command action and an icon class has been
\* disposed, and both lookups still answer for the id.
C11_Witness ==
    /\ last.op = "dispose"
    /\ disposables[last.reg].disposed
    /\ getCommandActionById(last.id) # None
    /\ last.id \in DOMAIN taskIdToIconClassNameMap
    /\ \E item \in CommandActionItems : item.id = last.id /\ ReturnFor(item) # None

(***************************************************************************)
(* C12.  Each dispose() disposes the CommandsRegistry registration made by *)
(* the same registerTask call, whether or not the id is found in the task  *)
(* list; so no disposed registration keeps its command handler registered, *)
(* and no id whose only registration has been disposed remains in          *)
(* getTasks() with its command handler unregistered.                       *)
(***************************************************************************)
C12_DisposeUnregisters ==
    /\ last.op = "dispose" =>
          /\ CallsOf(last.calls, "disposeCommand") # {}
          /\ disposables[last.reg].command = "disposed"
    /\ \A r \in 1..Len(disposables) :
          /\ disposables[r].disposed => disposables[r].command = "disposed"
          /\ (disposables[r].disposed /\ RegistrationsOf(disposables[r].id) = {r}) =>
                 ~(Contains(getTasks, disposables[r].id) /\ disposables[r].command = "disposed")

====
